---- MODULE Spec2Model ----
(***************************************************************************)
(* Model of the streaming summarize pipeline of yt-summarizer-II:          *)
(*   src/app/api/summarize/route.js  (POST handler and its helpers)        *)
(*   src/unnamed/part_001            (connectToDatabase, lib/mongodb)      *)
(* One run of POST is a process that is suspended at each `await`; the     *)
(* program counter pc[r] names the await the run is suspended at, and one  *)
(* action resolves (or rejects) that await and runs the synchronous code   *)
(* up to the next await.  Runs interleave only at awaits, as on the        *)
(* single-threaded event loop.                                             *)
(***************************************************************************)
EXTENDS Integers, Sequences, FiniteSets, TLC

\* ------------------------------------------------------------------------
\* Bounds of the exploration
\* ------------------------------------------------------------------------
\* largest number of chunks splitTranscriptIntoChunks yields for a transcript
MaxChunks == 2

\* concurrent POST runs explored
Runs == {1, 2}

\* (videoId, language) pairs a request can name
Keys == {"k1", "k2"}

\* summary modes a request can name
Modes == {"video", "podcast"}

\* non-empty sanitized texts a provider can return
Texts == {"sA", "sB"}

\* ------------------------------------------------------------------------
\* Program tables
\* ------------------------------------------------------------------------
\* keys of AI_MODELS
AI_MODELS == {"gemini", "groq", "gpt4"}

\* MODEL_NAMES: display name of each backend
MODEL_NAMES == [m \in AI_MODELS |->
                  CASE m = "gemini" -> "Google Gemini"
                    [] m = "groq"   -> "Groq"
                    [] m = "gpt4"   -> "GPT-4"]

\* the environment variable that holds each backend's credential
KeyVar == [m \in AI_MODELS |->
             CASE m = "gemini" -> "GEMINI_API_KEY"
               [] m = "groq"   -> "GROQ_API_KEY"
               [] m = "gpt4"   -> "OPENAI_API_KEY"]

\* property names every object literal inherits from Object.prototype (one
\* of them): AI_MODELS[name] is a function, hence truthy, for these
Inherited == {"constructor"}

\* aiModel values a request can carry: the three backends, an unknown name
\* and an inherited property name
ModelChoices == AI_MODELS \cup {"claude"} \cup Inherited

\* process environments explored: sets of credential variables that are set
EnvChoices == { {"GEMINI_API_KEY", "GROQ_API_KEY", "OPENAI_API_KEY"},
                {"GEMINI_API_KEY"},
                {"GROQ_API_KEY", "OPENAI_API_KEY"} }

\* checkApiKeyAvailability()[m] / get<M>Client() # null
Configured(e, m) == KeyVar[m] \in e

\* `source || 'youtube'`
OrYoutube(s) == IF s = "" THEN "youtube" ELSE s

\* ------------------------------------------------------------------------
\* Requests and trace entries
\* ------------------------------------------------------------------------
\* body of a request after req.json() and extractVideoId: the key stands for
\* the (videoId, language) pair
Requests == [key : Keys, mode : Modes, aiModel : ModelChoices]

\* no request arrives for a run
NoRequest == [key |-> "", mode |-> "", aiModel |-> ""]

Request(k, m, a) == [key |-> k, mode |-> m, aiModel |-> a]

\* one entry of a run's trace: a progress-stream event that was written
\* (op = "write") or a call the run made on a collaborator
Entry(op, type, stage, cur, tot, text, source, warning, msg, who) ==
  [op |-> op, type |-> type, stage |-> stage, cur |-> cur, tot |-> tot,
   text |-> text, source |-> source, warning |-> warning, msg |-> msg, who |-> who]

\* {type:'progress', currentChunk, totalChunks, stage}
ProgressEvent(cur, tot, stage) ==
  Entry("write", "progress", stage, cur, tot, "", "", FALSE, "", {})

\* {type:'complete', summary, source, status:'completed'[, warning]}
CompleteEvent(text, source, warning) ==
  Entry("write", "complete", "", 0, 0, text, source, warning, "", {})

\* {type:'error', error: error.message, details}
ErrorEvent(e) ==
  Entry("write", "error", "", 0, 0, "", "", FALSE, e.msg, e.who)

\* a call on a collaborator (transcript acquirer, provider, store, writer)
CallEntry(op, n) == Entry(op, "", "", n, 0, "", "", FALSE, "", {})

NoEvent == CallEntry("none", 0)

\* thrown Error values: the message kind and the backend names it mentions
Err(msg, who) == [msg |-> msg, who |-> who]
NoErr == Err("", {})

\* `Invalid AI model selected. Please choose from: ${Object.values(MODEL_NAMES).join(', ')}`
InvalidModelError == Err("invalidModel", {MODEL_NAMES[m] : m \in AI_MODELS})

\* `${MODEL_NAMES.x} API key is not configured. ... choose a different model.`
NotConfiguredError(m) == Err("notConfiguredChooseDifferentModel", {MODEL_NAMES[m]})

\* a stored document of the 'summaries' collection
Doc(id, key, content, mode, source) ==
  [id |-> id, key |-> key, content |-> content, mode |-> mode, source |-> source]

NoDoc == Doc(0, "", "", "", "")

\* `/tmp/${videoId}_temp.mp3` and `/tmp/${videoId}.flac`: the paths depend on
\* the video alone
tempPath(k) == <<"temp", k>>
outputPath(k) == <<"flac", k>>

\* the paths downloadAudio can name
Paths == {tempPath(k) : k \in Keys} \cup {outputPath(k) : k \in Keys}

\* ------------------------------------------------------------------------
\* State
\* ------------------------------------------------------------------------
VARIABLES
  env,          \* process.env: the credential variables that are set
  video,        \* video[k]: number of chunks the transcript of video k splits into
  store,        \* the 'summaries' collection, in insertion order
  cachedClient, \* lib/mongodb cachedClient/cachedDb (0 = null)
  nClients,     \* MongoClient instances created so far
  req,          \* req[r]: the request body of run r
  pc,           \* pc[r]: the await run r is suspended at
  stream,       \* stream[r]: state of the run's TransformStream writer
  out,          \* out[r]: the event handed to the writeProgress in flight
  trace,        \* trace[r]: events written and calls made, in order
  closes,       \* closes[r]: number of writer.close() invocations
  err,          \* err[r]: the error caught by the outer catch
  unhandled,    \* unhandled[r]: the async body rejected (throw inside catch)
  db,           \* db[r]: client whose db handle the run holds (0 = none)
  doc,          \* doc[r]: existingSummary / existing, or NoDoc
  source,       \* source[r]: transcript source
  tot,          \* tot[r]: chunks.length
  idx,          \* idx[r]: loop variable i
  summary,      \* summary[r]: result of the final generation
  splitArgs,    \* arguments of the splitTranscriptIntoChunks call under study
  splitRet,     \* its return value, once it has returned
  cleanArg,     \* argument of the cleanModelOutput call under study
  cleanRet,     \* its return value, once it has returned
  disk          \* disk[f]: state of the file at path f under /tmp

vars == <<env, video, store, cachedClient, nClients, req, pc, stream, out, trace,
          closes, err, unhandled, db, doc, source, tot, idx, summary,
          splitArgs, splitRet, cleanArg, cleanRet, disk>>

\* the calls of the chunk splitter and of the sanitizer that are studied in
\* isolation
pure == <<splitArgs, splitRet, cleanArg, cleanRet>>

\* variables of the environment, the store and the connection cache (and
\* those no run of POST touches)
conn == <<env, video, store, cachedClient, nClients, pure>>

\* the variables shared by the runs
shared == <<conn, disk>>

\* ------------------------------------------------------------------------
\* Store operations (mongodb driver ^6.16.0, src/package.json)
\* ------------------------------------------------------------------------
\* indices of the documents matching { videoId, language }
Matching(st, k) == {j \in 1..Len(st) : st[j].key = k}

Min(S) == CHOOSE x \in S : \A y \in S : x <= y

\* collection.findOne({ videoId, language }): first match in natural order
FindOne(st, k) == IF Matching(st, k) = {} THEN NoDoc ELSE st[Min(Matching(st, k))]

\* collection.insertOne(summaryDoc)
InsertOne(st, k, content, mode, src) ==
  Append(st, Doc(Len(st) + 1, k, content, mode, src))

\* collection.findOneAndUpdate({ videoId, language }, { $set: {...} }):
\* updates the first match; no upsert option, so no match changes nothing
FindOneAndUpdate(st, k, content, mode, src) ==
  IF Matching(st, k) = {} THEN st
  ELSE LET j == Min(Matching(st, k))
       IN [st EXCEPT ![j] = Doc(st[j].id, k, content, mode, src)]

\* ------------------------------------------------------------------------
\* Control flow of the async body of POST
\* ------------------------------------------------------------------------
Set(f, r, v) == [f EXCEPT ![r] = v]

\* (mutant) the inner try does not cover insertOne
InnerTryNarrow == {"find2", "update", "wComplete"}

\* awaits that lie inside the inner try { ... } catch (dbError) of the saving
\* stage (find, update / insert, and the write of the 'complete' event)
InnerTry == {"find2", "update", "insert", "wComplete"}

\* (mutant) the outer catch only logs: no 'error' event is written
HandlerSilentCatch(p) == IF p \in InnerTry THEN "dbCatch" ELSE "none"

\* which handler receives an exception thrown while the run is at await p:
\* the inner catch (dbError), the outer catch, or none (thrown inside the
\* outer catch itself)
Handler(p) == IF p \in InnerTry THEN "dbCatch"
              ELSE IF p = "wError" THEN "none"
              ELSE "catch"

\* awaits of a writeProgress call
WriteSites == {"wHit", "wAnalyzing", "wProcessing", "wFinalizing", "wSaving",
               "wComplete", "wWarn", "wError"}

\* events of the pipeline
AnalyzingProgress == ProgressEvent(0, 1, "analyzing")
\* (mutant) the 0-based loop index is reported as currentChunk
ChunkProgressZeroBased(i, n) == ProgressEvent(i, n, "processing")

ChunkProgress(i, n) == ProgressEvent(i + 1, n, "processing")
FinalizingProgress(n) == ProgressEvent(n, n, "finalizing")
SavingProgress(n) == ProgressEvent(n, n, "saving")
\* (mutant) the source of the cached document is ignored
CachedCompleteYoutube(d) == CompleteEvent(d.content, "youtube", FALSE)

CachedComplete(d) == CompleteEvent(d.content, OrYoutube(d.source), FALSE)
SavedComplete(text, src) == CompleteEvent(text, OrYoutube(src), FALSE)
WarnedComplete(text, src) == CompleteEvent(text, OrYoutube(src), TRUE)

\* writeProgress(ev) is called and awaited at p
WriteCall(r, ev, p) ==
  /\ out' = Set(out, r, ev)
  /\ pc' = Set(pc, r, p)
  /\ UNCHANGED <<err, closes, unhandled>>

\* the finally block: writer.close().catch(...) is called and awaited
Finally(r) ==
  /\ closes' = Set(closes, r, closes[r] + 1)
  /\ pc' = Set(pc, r, "finClose")
  /\ UNCHANGED <<out, err, unhandled>>

\* an exception e is thrown while the run is at await pc[r]
Raise(r, e) ==
  CASE Handler(pc[r]) = "dbCatch" ->
         WriteCall(r, WarnedComplete(summary[r], source[r]), "wWarn")
    [] Handler(pc[r]) = "catch" ->
         /\ err' = Set(err, r, e)
         /\ out' = Set(out, r, ErrorEvent(e))
         /\ pc' = Set(pc, r, "wError")
         /\ UNCHANGED <<closes, unhandled>>
    [] OTHER ->
         /\ closes' = Set(closes, r, closes[r] + 1)
         /\ pc' = Set(pc, r, "finClose")
         /\ unhandled' = Set(unhandled, r, TRUE)
         /\ UNCHANGED <<out, err>>

\* the call of another collaborator awaited at p
CallAt(r, p) ==
  /\ pc' = Set(pc, r, p)
  /\ UNCHANGED <<out, err, closes, unhandled>>

Log(r, e) == trace' = Set(trace, r, Append(trace[r], e))


\* writer.write resolves iff the stream is still writable; the event reaches
\* the readable side
Written(r) == stream[r] = "open" /\ Log(r, out[r])

\* the event is written and the run goes on to call a collaborator
WrittenThen(r, call) ==
  /\ stream[r] = "open"
  /\ trace' = Set(trace, r, Append(Append(trace[r], out[r]), call))

\* (mutant) writeProgress swallows the rejection of the 'analyzing' write and
\* the run goes on to call getTranscript
WriteFailedSwallowed(r) ==
  /\ pc[r] = "wAnalyzing"
  /\ stream[r] \in {"open", "errored"}
  /\ stream' = Set(stream, r, "errored")
  /\ Log(r, CallEntry("acquire", 0))
  /\ CallAt(r, "caption")
  /\ UNCHANGED <<shared, req, db, doc, source, tot, idx, summary>>

\* writer.write rejects: the consumer has cancelled the readable side (the
\* client went away), which errors the writer for good
WriteFailed(r) ==
  /\ pc[r] \in WriteSites
  /\ stream[r] \in {"open", "errored"}
  /\ stream' = Set(stream, r, "errored")
  /\ Raise(r, Err("streamWrite", {}))
  /\ UNCHANGED <<shared, req, trace, db, doc, source, tot, idx, summary>>

\* ------------------------------------------------------------------------
\* splitTranscriptIntoChunks (pure function)
\* ------------------------------------------------------------------------
\* longest transcript explored, in characters
MaxText == 6

\* largest chunkSize explored
MaxChunkSize == 4

\* characters of a transcript: two letters and the space; a string is a
\* sequence of characters
Chars == {"a", "b", " "}

\* overlap values explored: floor(overlap / 10) is 0, 1 or 2 words
Overlaps == {0, 10, 20}

\* the strings of at most n characters
Strings(n) == UNION {[1..k -> Chars] : k \in 0..n}

\* `s.split(' ')`: the pieces between the spaces, empty pieces included
\* (the empty string splits into one empty piece)
RECURSIVE split(_)
split(s) ==
  LET spaces == {i \in 1..Len(s) : s[i] = " "}
  IN IF spaces = {}
     THEN <<s>>
     ELSE LET i == Min(spaces)
          IN <<SubSeq(s, 1, i - 1)>> \o split(SubSeq(s, i + 1, Len(s)))

\* `a.join(' ')`
RECURSIVE join(_)
join(a) ==
  IF a = << >> THEN << >>
  ELSE IF Len(a) = 1 THEN a[1]
  ELSE a[1] \o <<" ">> \o join(Tail(a))

\* `a.slice(-n)`: the last n elements of a, all of a when it has fewer;
\* -0 is 0, so slice(-0) is slice(0), the whole array
sliceLast(a, n) ==
  IF n = 0 \/ n >= Len(a) THEN a ELSE SubSeq(a, Len(a) - n + 1, Len(a))

\* the locals of splitTranscriptIntoChunks before the loop
Locals0 == [chunks |-> << >>, currentChunk |-> << >>, currentLength |-> 0]

\* `currentChunk.slice(-Math.floor(overlap / 10))`
overlapWords(currentChunk, overlap) == sliceLast(currentChunk, overlap \div 10)

\* body of the `if`: the current chunk is closed and the next one is seeded
\* with its trailing words
CloseChunk(l, overlap) ==
  [chunks        |-> Append(l.chunks, join(l.currentChunk)),
   currentChunk  |-> overlapWords(l.currentChunk, overlap),
   currentLength |-> Len(join(overlapWords(l.currentChunk, overlap)))]

\* (mutant) empty words (from consecutive, leading or trailing spaces) are
\* not pushed
PushWordUnlessEmpty(l, word) ==
  IF word = << >>
  THEN l
  ELSE [l EXCEPT !.currentChunk = Append(@, word),
                 !.currentLength = @ + Len(word) + 1]

\* `currentChunk.push(word); currentLength += word.length + 1;`
PushWord(l, word) ==
  [l EXCEPT !.currentChunk = Append(@, word),
            !.currentLength = @ + Len(word) + 1]

\* one iteration of `for (const word of words)`
Iteration(l, word, chunkSize, overlap) ==
  PushWord(IF l.currentLength + Len(word) > chunkSize /\ l.currentChunk # << >>
           THEN CloseChunk(l, overlap)
           ELSE l,
           word)

\* the locals after the loop over words
RECURSIVE Loop(_, _, _, _)
Loop(l, words, chunkSize, overlap) ==
  IF words = << >>
  THEN l
  ELSE Loop(Iteration(l, Head(words), chunkSize, overlap), Tail(words),
            chunkSize, overlap)

\* splitTranscriptIntoChunks(transcript, chunkSize, overlap): the chunks
\* returned
splitTranscriptIntoChunks(transcript, chunkSize, overlap) ==
  LET l == Loop(Locals0, split(transcript), chunkSize, overlap)
  IN IF l.currentChunk # << >>
     THEN Append(l.chunks, join(l.currentChunk))
     ELSE l.chunks

\* arguments of the calls explored
SplitInputs ==
  [transcript : Strings(MaxText), chunkSize : 1..MaxChunkSize, overlap : Overlaps]

\* no call of the splitter is under study
NoArgs == [transcript |-> << >>, chunkSize |-> 0, overlap |-> 0]

\* the call has not returned
Pending == [returned |-> FALSE, chunks |-> << >>]

\* ------------------------------------------------------------------------
\* cleanModelOutput (pure function)
\* ------------------------------------------------------------------------
\* A text is a sequence of tokens: a token is a word (letters and
\* apostrophes), or one punctuation mark, blank, line feed or marker.  The
\* explored texts spell the words as the patterns do (the patterns carry the
\* `i` flag).  A character outside ASCII is written by its code point
\* ("U+1F3AF" is the dart emoji, "U+1F399" the microphone emoji with its
\* variation selector U+FE0F, "U+2022" the bullet) and German umlauts are
\* transliterated; an emoji marker is one token although the patterns, which
\* lack the `u` flag, see its UTF-16 code units.

\* longest model output explored, in tokens
MaxOut == 5

\* tokens of the explored outputs
Tokens == {"Sure", "Here's", "summary", "x", ":", ",", "\n", "#"}

\* the texts of at most n tokens
Texts0(n) == UNION {[1..k -> Tokens] : k \in 0..n}

\* "Here's a summary: The video discusses X."
ExampleA ==
  <<"Here's", " ", "a", " ", "summary", ":", " ", "The", " ", "video", " ",
    "discusses", " ", "X", ".">>

\* "<U+1F3AF> TITLE: My Video\nBody text"
ExampleB ==
  <<"U+1F3AF", " ", "TITLE", ":", " ", "My", " ", "Video", "\n", "Body", " ", "text">>

\* outputs that open with a preamble and go on with a structured line, one
\* for each kind of marker
MarkerExamples ==
  {<<"Sure", "!", "\n", m, " ", "Topics", ":", " ", "a", ",", " ", "b">> :
     m \in {"#", "*", "-", "U+2022", "U+1F3AF", "U+1F399"}}

\* `\s` and the line terminators, among the tokens
Space == {" ", "\n"}
NewLine == {"\n"}

\* `\d`, among the tokens
Digits == {"0", "1", "2", "3", "4", "5", "6", "7", "8", "9"}

\* the text from position i on
From(s, i) == SubSeq(s, i, Len(s))

\* the position of the first token at or after i that is no whitespace
\* (Len(s) + 1 when there is none): where `\s*` stops
SkipSpace(s, i) ==
  LET rest == {j \in i..Len(s) : s[j] \notin Space}
  IN IF rest = {} THEN Len(s) + 1 ELSE Min(rest)

\* the lengths of the alternatives of A that the text starts with: `^(A)`
OpenEnds(s, A) ==
  {Len(a) : a \in {b \in A : Len(b) <= Len(s) /\ SubSeq(s, 1, Len(b)) = b}}

\* text.replace(/^(A)X*?[T]\s*/i, ''), X being `[^]` (dotAll) or `.`: the
\* text loses its head up to the first terminator of T after the opener,
\* and the whitespace that follows; `.` does not cross a line feed
RemoveLead(s, A, T, dotAll) ==
  LET P == {p \in 1..Len(s) :
              /\ s[p] \in T
              /\ \E e \in OpenEnds(s, A) :
                   /\ e < p
                   /\ dotAll \/ \A k \in (e + 1)..(p - 1) : s[k] \notin NewLine}
  IN IF P = {} THEN s ELSE From(s, SkipSpace(s, Min(P) + 1))

\* text.replace(/^(A)[^]*?(K).*?:\s*/i, ''): the text loses its head up to
\* the first colon that follows, on the same line, a keyword of K found
\* anywhere after the opener
RemoveLeadKeyword(s, A, K) ==
  LET C == {c \in 1..Len(s) :
              /\ s[c] = ":"
              /\ \E e \in OpenEnds(s, A) : \E k \in (e + 1)..(c - 1) :
                   /\ s[k] \in K
                   /\ \A j \in (k + 1)..(c - 1) : s[j] \notin NewLine}
  IN IF C = {} THEN s ELSE From(s, SkipSpace(s, Min(C) + 1))

\* text.replace(/^(A),?\s*/i, '')
RemoveOpener(s, A) ==
  IF OpenEnds(s, A) = {}
  THEN s
  ELSE LET e == Min(OpenEnds(s, A))
           c == IF e < Len(s) /\ s[e + 1] = "," THEN e + 1 ELSE e
       IN From(s, SkipSpace(s, c + 1))

\* `^` under the `m` flag: the start of the text or of a line
IsLineStart(s, i) == i = 1 \/ s[i - 1] \in NewLine

\* the class [^:\n<U+1F3AF><U+1F399><U+FE0F>#*\-<U+2022>] of the label pattern: every token but these
NoLabel == {":", "\n", "U+1F3AF", "U+1F399", "#", "*", "-", "U+2022"}

\* the position after a match of /^[^:\n<U+1F3AF><U+1F399><U+FE0F>#*\-<U+2022>]+:\s*/ at i, or 0
LabelMatch(s, i) ==
  LET stop == {j \in i..Len(s) : s[j] \in NoLabel}
  IN IF IsLineStart(s, i) /\ stop # {} /\ Min(stop) > i /\ s[Min(stop)] = ":"
     THEN SkipSpace(s, Min(stop) + 1)
     ELSE 0

\* the class [#*\-<U+2022><U+1F3AF><U+FE0F>] of the negative lookahead of the numbering pattern
NoNumbering == {"#", "*", "-", "U+2022", "U+1F3AF", "U+1F399"}

\* the position after a match of /^(?![#*\-<U+2022><U+1F3AF><U+FE0F>])[\s\d]+\.\s*/ at i, or 0
NumberingMatch(s, i) ==
  LET stop == {j \in i..Len(s) : s[j] \notin Space \cup Digits}
  IN IF /\ IsLineStart(s, i)
        /\ s[i] \notin NoNumbering
        /\ stop # {} /\ Min(stop) > i /\ s[Min(stop)] = "."
     THEN SkipSpace(s, Min(stop) + 1)
     ELSE 0

\* text.replace(/.../gm, '') for the label pattern: the matches are looked
\* for from left to right in the text and removed
RECURSIVE RemoveLabels(_, _)
RemoveLabels(s, i) ==
  IF i > Len(s) THEN << >>
  ELSE IF LabelMatch(s, i) # 0 THEN RemoveLabels(s, LabelMatch(s, i))
  ELSE <<s[i]>> \o RemoveLabels(s, i + 1)

\* text.replace(/.../gm, '') for the numbering pattern
RECURSIVE RemoveNumbering(_, _)
RemoveNumbering(s, i) ==
  IF i > Len(s) THEN << >>
  ELSE IF NumberingMatch(s, i) # 0 THEN RemoveNumbering(s, NumberingMatch(s, i))
  ELSE <<s[i]>> \o RemoveNumbering(s, i + 1)

\* `.trim()`
trim(s) ==
  LET ink == {j \in 1..Len(s) : s[j] \notin Space}
  IN IF ink = {} THEN << >>
     ELSE SubSeq(s, Min(ink), CHOOSE j \in ink : \A k \in ink : k <= j)

\* the alternatives of the opening groups of the patterns, in the order of
\* the replaces; an optional tail such as `( is)?` is left out where a
\* wildcard follows the group, which matches the tail as well
Open1 == {<<"Okay">>, <<"Here">>, <<"Heres">>, <<"Here's">>, <<"Let", " ", "me">>,
          <<"I", " ", "will">>, <<"I'll">>, <<"I", " ", "can">>,
          <<"I", " ", "would">>, <<"I", " ", "am", " ", "going", " ", "to">>,
          <<"Allow", " ", "me", " ", "to">>, <<"Sure">>, <<"Of", " ", "course">>,
          <<"Certainly">>, <<"Alright">>}
Open2 == {<<"Here">>, <<"Heres">>, <<"Here's">>, <<"I">>, <<"Il">>, <<"Ill">>,
          <<"I'l">>, <<"I'll">>, <<"Let", " ", "me">>, <<"I", " ", "will">>,
          <<"I", " ", "can">>, <<"I", " ", "would">>,
          <<"I", " ", "am", " ", "going", " ", "to">>,
          <<"Allow", " ", "me", " ", "to">>, <<"Sure">>, <<"Of", " ", "course">>,
          <<"Certainly">>}
Keys2 == {"summary", "translate", "breakdown", "analysis"}
Open3 == {<<"Based", " ", "on">>, <<"According", " ", "to">>}
Open4 == {<<"I", " ", "understand">>}
Open5 == {<<"Now">>, <<"First">>, <<"Let's">>}
Open6 == {<<"Here", " ", "are">>, <<"The", " ", "following", " ", "is">>,
          <<"This", " ", "is">>, <<"Below", " ", "is">>}
Open7 == {<<"I'll", " ", "provide">>, <<"Let", " ", "me", " ", "break">>,
          <<"I'll", " ", "break">>, <<"I'll", " ", "help">>,
          <<"I've", " ", "structured">>}
Open8 == {<<"As", " ", "requested">>, <<"Following", " ", "your">>,
          <<"In", " ", "response", " ", "to">>}
Open9 == {<<"Okay">>, <<"Hier">>, <<"Lass", " ", "mich">>, <<"Ich", " ", "werde">>,
          <<"Ich", " ", "kann">>, <<"Ich", " ", "wuerde">>, <<"Ich", " ", "moechte">>,
          <<"Erlauben", " ", "Sie", " ", "mir">>, <<"Sicher">>, <<"Natuerlich">>,
          <<"Gewiss">>, <<"In", " ", "Ordnung">>}
Open10 == {<<"Hier">>, <<"Ich", " ", "werde">>, <<"Lass", " ", "mich">>,
           <<"Ich", " ", "kann">>, <<"Ich", " ", "wuerde">>, <<"Ich", " ", "moechte">>}
Keys10 == {"Zusammenfassung", "Uebersetzung", "Analyse"}
Open11 == {<<"Basierend", " ", "auf">>, <<"Laut">>, <<"Gemaess">>}
Open12 == {<<"Ich", " ", "verstehe">>}
Open13 == {<<"Jetzt">>, <<"Zunaechst">>, <<"Lass", " ", "uns">>}
Open14 == {<<"Hier", " ", "sind">>, <<"Folgendes">>, <<"Dies", " ", "ist">>,
           <<"Im", " ", "Folgenden">>}
Open15 == {<<"Ich", " ", "werde">>, <<"Lass", " ", "mich">>, <<"Ich", " ", "helfe">>,
           <<"Ich", " ", "habe", " ", "strukturiert">>}
Open16 == {<<"Wie", " ", "gewuenscht">>, <<"Entsprechend", " ", "Ihrer">>,
           <<"Als", " ", "Antwort", " ", "auf">>}

\* the first eight replaces (English preambles), applied in order
CleanEnglish(t) ==
  LET t1 == RemoveLead(t, Open1, {","}, TRUE)
      t2 == RemoveLeadKeyword(t1, Open2, Keys2)
      t3 == RemoveLead(t2, Open3, {","}, FALSE)
      t4 == RemoveLead(t3, Open4, {".", "!"}, FALSE)
      t5 == RemoveOpener(t4, Open5)
      t6 == RemoveLead(t5, Open6, {":"}, FALSE)
      t7 == RemoveLead(t6, Open7, {":"}, FALSE)
  IN RemoveLead(t7, Open8, {":"}, FALSE)

\* the next eight replaces (German preambles), applied in order
CleanGerman(t) ==
  LET t1 == RemoveLead(t, Open9, {","}, TRUE)
      t2 == RemoveLeadKeyword(t1, Open10, Keys10)
      t3 == RemoveLead(t2, Open11, {","}, FALSE)
      t4 == RemoveLead(t3, Open12, {".", "!"}, FALSE)
      t5 == RemoveOpener(t4, Open13)
      t6 == RemoveLead(t5, Open14, {":"}, FALSE)
      t7 == RemoveLead(t6, Open15, {":"}, FALSE)
  IN RemoveLead(t7, Open16, {":"}, FALSE)

\* cleanModelOutput(text)
cleanModelOutput(text) ==
  trim(RemoveNumbering(RemoveLabels(CleanGerman(CleanEnglish(text)), 1), 1))

\* model outputs explored
CleanInputs == Texts0(MaxOut) \cup {ExampleA, ExampleB} \cup MarkerExamples

\* the call of cleanModelOutput has not returned
NotCleaned == [returned |-> FALSE, text |-> << >>]

\* ------------------------------------------------------------------------
\* Initial state
\* ------------------------------------------------------------------------
\* explored workloads: every single request under every environment and
\* transcript length (in chunks), and pairs of concurrent requests for the
\* same key: with different modes, over the shortest and the longest
\* transcript; with a peer that names a backend whose key is absent; and
\* with a peer that names an inherited property name
AllKeys == {"GEMINI_API_KEY", "GROQ_API_KEY", "OPENAI_API_KEY"}

Solo == {[e |-> e, n |-> n, q |-> [r \in Runs |-> IF r = 1 THEN q ELSE NoRequest]] :
           e \in EnvChoices, n \in 1..MaxChunks, q \in Requests}

Pairs == {[e |-> AllKeys, n |-> n,
           q |-> [r \in Runs |-> Request("k1", IF r = 1 THEN "video" ELSE "podcast", "gemini")]] :
            n \in {1, MaxChunks}}
         \cup
         {[e |-> {"GEMINI_API_KEY"}, n |-> MaxChunks,
           q |-> [r \in Runs |-> Request("k1", "video", IF r = 1 THEN "gemini" ELSE "groq")]]}
         \cup
         {[e |-> {"GEMINI_API_KEY"}, n |-> 1,
           q |-> [r \in Runs |-> Request("k1", "video", IF r = 1 THEN "gemini" ELSE "constructor")]]}

Workloads == Solo \cup Pairs

\* workloads of the fair specification: the single requests and one pair of
\* concurrent requests for the same key with only the Gemini key set
LiveWorkloads ==
  Solo \cup {[e |-> {"GEMINI_API_KEY"}, n |-> MaxChunks,
             q |-> [r \in Runs |-> Request("k1", IF r = 1 THEN "video" ELSE "podcast", "gemini")]]}

\* the state after module load, with the requests of workload set W in flight
InitOf(W) ==
  /\ \E w \in W : env = w.e /\ req = w.q /\ video = [k \in Keys |-> w.n]
  /\ store = << >>
  /\ cachedClient = 0
  /\ nClients = 0
  /\ pc = [r \in Runs |-> "idle"]
  /\ stream = [r \in Runs |-> "none"]
  /\ out = [r \in Runs |-> NoEvent]
  /\ trace = [r \in Runs |-> << >>]
  /\ closes = [r \in Runs |-> 0]
  /\ err = [r \in Runs |-> NoErr]
  /\ unhandled = [r \in Runs |-> FALSE]
  /\ db = [r \in Runs |-> 0]
  /\ doc = [r \in Runs |-> NoDoc]
  /\ source = [r \in Runs |-> ""]
  /\ tot = [r \in Runs |-> 0]
  /\ idx = [r \in Runs |-> 0]
  /\ summary = [r \in Runs |-> ""]
  /\ disk = [f \in Paths |-> "absent"]

\* no call of a pure function is under study
NoPureCall ==
  /\ splitArgs = NoArgs /\ splitRet = Pending
  /\ cleanArg = << >> /\ cleanRet = NotCleaned

Init == InitOf(Workloads) /\ NoPureCall

LiveInit == InitOf(LiveWorkloads) /\ NoPureCall

\* no request is in flight and one call of the splitter is about to be made
SplitInit ==
  /\ InitOf({[e |-> AllKeys, n |-> 1, q |-> [r \in Runs |-> NoRequest]]})
  /\ splitArgs \in SplitInputs
  /\ splitRet = Pending
  /\ cleanArg = << >> /\ cleanRet = NotCleaned

\* no request is in flight and cleanModelOutput is about to be applied to
\* the output of a provider
CleanInit ==
  /\ InitOf({[e |-> AllKeys, n |-> 1, q |-> [r \in Runs |-> NoRequest]]})
  /\ splitArgs = NoArgs /\ splitRet = Pending
  /\ cleanArg \in CleanInputs
  /\ cleanRet = NotCleaned

\* ------------------------------------------------------------------------
\* Actions: POST up to the cache check
\* ------------------------------------------------------------------------
\* POST(req): the stream and its writer are created, the async body starts
\* and suspends at `await req.json()`
Begin(r) ==
  /\ pc[r] = "idle"
  /\ req[r] # NoRequest
  /\ stream' = Set(stream, r, "open")
  /\ CallAt(r, "json")
  /\ UNCHANGED <<shared, req, trace, db, doc, source, tot, idx, summary>>

\* connectToDatabase(), up to its await (or its early return)
ConnectCall(r) ==
  IF cachedClient # 0
  THEN /\ db' = Set(db, r, cachedClient)
       /\ CallAt(r, "dbCached")
       /\ UNCHANGED nClients
  ELSE /\ nClients' = nClients + 1
       /\ db' = Set(db, r, nClients + 1)
       /\ CallAt(r, "dbConnect")

\* `AI_MODELS[aiModel]` is truthy: the lookup on the object literal finds own
\* and inherited properties
IsSelectable(m) == m \in AI_MODELS \cup Inherited

\* req.json() settles; the provider choice is validated; connectToDatabase
\* is called
Json(r) ==
  /\ pc[r] = "json"
  /\ \/ /\ Raise(r, Err("badRequest", {}))
        /\ UNCHANGED <<db, nClients>>
     \/ /\ ~IsSelectable(req[r].aiModel)
        /\ Raise(r, InvalidModelError)
        /\ UNCHANGED <<db, nClients>>
     \/ /\ IsSelectable(req[r].aiModel)
        /\ ConnectCall(r)
  /\ UNCHANGED <<pure, disk, env, video, store, cachedClient, req, stream, trace, doc, source, tot, idx, summary>>

\* connectToDatabase returned the cached handle; findOne is called
DbCached(r) ==
  /\ pc[r] = "dbCached"
  /\ CallAt(r, "find1")
  /\ Log(r, CallEntry("find", 1))
  /\ UNCHANGED <<shared, req, stream, db, doc, source, tot, idx, summary>>

\* client.connect() settles; on success the handle is cached and findOne is
\* called
DbConnect(r) ==
  /\ pc[r] = "dbConnect"
  /\ \/ /\ cachedClient' = db[r]
        /\ CallAt(r, "find1")
        /\ Log(r, CallEntry("find", 1))
        /\ UNCHANGED db
     \/ /\ Raise(r, Err("dbConnect", {}))
        /\ db' = Set(db, r, 0)
        /\ UNCHANGED <<cachedClient, trace>>
  /\ UNCHANGED <<pure, disk, env, video, store, nClients, req, stream, doc, source, tot, idx, summary>>

\* the cache lookup settles: a hit writes 'complete', a miss writes the
\* 'analyzing' progress event
Find1(r) ==
  /\ pc[r] = "find1"
  /\ \/ LET d == FindOne(store, req[r].key)
        IN /\ doc' = Set(doc, r, d)
           /\ IF d # NoDoc
              THEN WriteCall(r, CachedComplete(d), "wHit")
              ELSE WriteCall(r, AnalyzingProgress, "wAnalyzing")
     \/ /\ Raise(r, Err("dbFind", {}))
        /\ UNCHANGED doc
  /\ UNCHANGED <<shared, req, stream, trace, db, source, tot, idx, summary>>

\* (mutant) the cache-hit branch neither closes nor returns: control falls
\* through to the cache-miss path
AfterHitFallThrough(r) == WriteCall(r, AnalyzingProgress, "wAnalyzing")

\* what follows the write of the cached 'complete': `await writer.close();
\* return;`
AfterHit(r) ==
  /\ closes' = Set(closes, r, closes[r] + 1)
  /\ pc' = Set(pc, r, "closeHit")
  /\ UNCHANGED <<out, err, unhandled>>

\* the cached 'complete' is written; writer.close() is called
WHit(r) ==
  /\ pc[r] = "wHit"
  /\ Written(r)
  /\ AfterHit(r)
  /\ UNCHANGED <<shared, req, stream, db, doc, source, tot, idx, summary>>

\* the explicit close of the cache-hit branch settles; `return` runs the
\* finally block, which calls writer.close() again
CloseHit(r) ==
  /\ pc[r] = "closeHit"
  /\ \/ /\ stream[r] = "open"
        /\ stream' = Set(stream, r, "closed")
        /\ Finally(r)
     \/ /\ stream' = Set(stream, r, "errored")
        /\ Raise(r, Err("streamClose", {}))
  /\ UNCHANGED <<shared, req, trace, db, doc, source, tot, idx, summary>>

\* ------------------------------------------------------------------------
\* Actions: transcript acquisition (getTranscript)
\* ------------------------------------------------------------------------
\* the 'analyzing' event is written; getTranscript is called and awaits
\* YoutubeTranscript.fetchTranscript
WAnalyzing(r) ==
  /\ pc[r] = "wAnalyzing"
  /\ WrittenThen(r, CallEntry("acquire", 0))
  /\ CallAt(r, "caption")
  /\ UNCHANGED <<shared, req, stream, db, doc, source, tot, idx, summary>>

\* getTranscript returned {transcript, source}; splitTranscriptIntoChunks
\* yields n chunks; the loop writes the first 'processing' event
Acquired(r, src, n) ==
  /\ source' = Set(source, r, src)
  /\ tot' = Set(tot, r, n)
  /\ idx' = Set(idx, r, 0)
  /\ WriteCall(r, ChunkProgress(0, n), "wProcessing")

\* (mutant) a failed caption fetch is retried before the fallback is tried
OnCaptionFailureRetry(r) ==
  /\ CallAt(r, "caption")
  /\ Log(r, CallEntry("acquire", 0))

\* the catch of getTranscript: the audio fallback starts by awaiting
\* ytdl.getInfo; getTranscript is not called again
OnCaptionFailure(r) ==
  /\ CallAt(r, "ytInfo")
  /\ trace' = Set(trace, r, Append(Append(trace[r], CallEntry("captionThrow", 0)),
                                   CallEntry("audioFallback", 0)))

\* the caption fetch settles: success returns the caption transcript, failure
\* enters the catch of getTranscript
Caption(r) ==
  /\ pc[r] = "caption"
  /\ \/ /\ Acquired(r, "youtube", video[req[r].key])
        /\ UNCHANGED trace
     \/ /\ OnCaptionFailure(r)
        /\ UNCHANGED <<source, tot, idx>>
  /\ UNCHANGED <<shared, req, stream, db, doc, summary>>

\* ytdl.getInfo of getTranscript settles; without an OpenAI key the fallback
\* throws, else downloadAudio is called and awaits its own ytdl.getInfo
YtInfo(r) ==
  /\ pc[r] = "ytInfo"
  /\ \/ /\ Configured(env, "gpt4")
        /\ CallAt(r, "dlInfo")
     \/ /\ ~Configured(env, "gpt4")
        /\ Raise(r, Err("noTranscriptAndNoWhisperKey", {}))
     \/ Raise(r, Err("videoInfo", {}))
  /\ UNCHANGED <<shared, req, stream, trace, db, doc, source, tot, idx, summary>>

\* awaits of the audio fallback (getTranscript's catch, downloadAudio and
\* transcribeWithWhisper)
FallbackSites == {"ytInfo", "dlInfo", "dlStream", "statTemp", "ffmpeg", "statOut",
                  "unlinkTemp", "wStat", "wRead", "wCreate", "wUnlinkOk",
                  "wUnlinkErr"}

\* the file at path f becomes v
Put(f, v) == disk' = [disk EXCEPT ![f] = v]

\* the catch of downloadAudio: `await fs.exists(tempPath)` is evaluated
\* first, and fs is require('fs').promises, which has no `exists`: the call
\* throws a TypeError, no file is removed, and the TypeError replaces the
\* error that was caught
DownloadCatch(r, e) ==
  /\ Raise(r, Err("fsExistsNotAFunction", {}))
  /\ e = e

\* ytdl.getInfo of downloadAudio settles; with a usable audio format the
\* download into tempPath is started
DlInfo(r) ==
  /\ pc[r] = "dlInfo"
  /\ \/ CallAt(r, "dlStream")
     \/ DownloadCatch(r, Err("videoInfo", {}))
     \/ DownloadCatch(r, Err("noAudioFormat", {}))
  /\ UNCHANGED <<shared, req, stream, trace, db, doc, source, tot, idx, summary>>

\* the download settles: the write stream finished (the file may be empty),
\* or it failed, before or after the file was created
DlStream(r) ==
  /\ pc[r] = "dlStream"
  /\ \/ /\ \E v \in {"empty", "data"} : Put(tempPath(req[r].key), v)
        /\ CallAt(r, "statTemp")
     \/ /\ \E v \in {disk[tempPath(req[r].key)], "empty", "data"} :
             Put(tempPath(req[r].key), v)
        /\ DownloadCatch(r, Err("downloadAudio", {}))
  /\ UNCHANGED <<conn, req, stream, trace, db, doc, source, tot, idx, summary>>

\* fs.stat(tempPath) settles; a non-empty file is handed to ffmpeg
StatTemp(r) ==
  /\ pc[r] = "statTemp"
  /\ CASE disk[tempPath(req[r].key)] = "data" -> CallAt(r, "ffmpeg")
       [] disk[tempPath(req[r].key)] = "empty" -> DownloadCatch(r, Err("emptyDownload", {}))
       [] OTHER -> DownloadCatch(r, Err("statTemp", {}))
  /\ UNCHANGED <<shared, req, stream, trace, db, doc, source, tot, idx, summary>>

\* ffmpeg exits: it wrote outputPath (possibly empty), or it failed, with or
\* without a partial output file
Ffmpeg(r) ==
  /\ pc[r] = "ffmpeg"
  /\ \/ /\ disk[tempPath(req[r].key)] # "absent"
        /\ \E v \in {"empty", "data"} : Put(outputPath(req[r].key), v)
        /\ CallAt(r, "statOut")
     \/ /\ \E v \in {disk[outputPath(req[r].key)], "empty"} :
             Put(outputPath(req[r].key), v)
        /\ DownloadCatch(r, Err("ffmpeg", {}))
  /\ UNCHANGED <<conn, req, stream, trace, db, doc, source, tot, idx, summary>>

\* fs.stat(outputPath) settles; with a non-empty output fs.unlink(tempPath)
\* is called
StatOut(r) ==
  /\ pc[r] = "statOut"
  /\ CASE disk[outputPath(req[r].key)] = "data" -> CallAt(r, "unlinkTemp")
       [] disk[outputPath(req[r].key)] = "empty" -> DownloadCatch(r, Err("emptyFlac", {}))
       [] OTHER -> DownloadCatch(r, Err("statOut", {}))
  /\ UNCHANGED <<shared, req, stream, trace, db, doc, source, tot, idx, summary>>

\* fs.unlink(tempPath) settles; downloadAudio returns outputPath and
\* transcribeWithWhisper awaits fs.stat(audioPath)
UnlinkTemp(r) ==
  /\ pc[r] = "unlinkTemp"
  /\ IF disk[tempPath(req[r].key)] # "absent"
     THEN /\ Put(tempPath(req[r].key), "absent")
          /\ CallAt(r, "wStat")
     ELSE /\ DownloadCatch(r, Err("unlinkTemp", {}))
          /\ UNCHANGED disk
  /\ UNCHANGED <<conn, req, stream, trace, db, doc, source, tot, idx, summary>>

\* the finally of transcribeWithWhisper is entered: fs.unlink(audioPath) is
\* awaited, with the outcome of the try block pending
WhisperFinally(r, ok) ==
  CallAt(r, IF ok THEN "wUnlinkOk" ELSE "wUnlinkErr")

\* fs.stat(audioPath) settles; fs.readFile is called
WStat(r) ==
  /\ pc[r] = "wStat"
  /\ IF disk[outputPath(req[r].key)] # "absent"
     THEN CallAt(r, "wRead")
     ELSE WhisperFinally(r, FALSE)
  /\ UNCHANGED <<shared, req, stream, trace, db, doc, source, tot, idx, summary>>

\* fs.readFile(audioPath) settles; the transcription request is sent
WRead(r) ==
  /\ pc[r] = "wRead"
  /\ \/ /\ disk[outputPath(req[r].key)] # "absent"
        /\ CallAt(r, "wCreate")
     \/ WhisperFinally(r, FALSE)
  /\ UNCHANGED <<shared, req, stream, trace, db, doc, source, tot, idx, summary>>

\* openai.audio.transcriptions.create settles
WCreate(r) ==
  /\ pc[r] = "wCreate"
  /\ \/ WhisperFinally(r, TRUE)
     \/ WhisperFinally(r, FALSE)
  /\ UNCHANGED <<shared, req, stream, trace, db, doc, source, tot, idx, summary>>

\* fs.unlink(audioPath) of the finally settles (a rejection is logged and
\* swallowed); transcribeWithWhisper returns the text, or rethrows
WUnlink(r) ==
  /\ pc[r] \in {"wUnlinkOk", "wUnlinkErr"}
  /\ Put(outputPath(req[r].key), "absent")
  /\ IF pc[r] = "wUnlinkOk"
     THEN Acquired(r, "whisper", video[req[r].key])
     ELSE /\ Raise(r, Err("whisper", {}))
          /\ UNCHANGED <<source, tot, idx>>
  /\ UNCHANGED <<conn, req, stream, trace, db, doc, summary>>

\* ------------------------------------------------------------------------
\* Actions: chunk loop and final generation
\* ------------------------------------------------------------------------
\* (mutant) the loop stops one chunk early
AfterChunkShort(r, i, n) ==
  IF i + 2 < n
  THEN WriteCall(r, ChunkProgress(i + 1, n), "wProcessing")
  ELSE WriteCall(r, FinalizingProgress(n), "wFinalizing")

\* after chunk i of n (0-based): the next loop iteration or the finalizing
\* stage
AfterChunk(r, i, n) ==
  IF i + 1 < n
  THEN WriteCall(r, ChunkProgress(i + 1, n), "wProcessing")
  ELSE WriteCall(r, FinalizingProgress(n), "wFinalizing")

\* (mutant) a failed chunk is skipped and the loop goes on (best effort)
OnChunkFailureSkip(r, e) ==
  /\ AfterChunk(r, idx[r], tot[r])
  /\ e = e

\* a rejected generateContent inside the loop is not caught there: it
\* propagates to the handler of the enclosing try
OnChunkFailure(r, e) == Raise(r, e)

\* the 'processing' event of chunk idx+1 is written; generateContent is
\* called for that chunk.  When aiModel is an inherited property name,
\* selectedModel is a function without generateContent and the call throws
\* a TypeError
WProcessing(r) ==
  /\ pc[r] = "wProcessing"
  /\ IF req[r].aiModel \in AI_MODELS
     THEN /\ WrittenThen(r, CallEntry("genStart", idx[r] + 1))
          /\ CallAt(r, "gen")
     ELSE /\ Written(r)
          /\ OnChunkFailure(r, Err("generateContentNotAFunction", {}))
  /\ UNCHANGED <<shared, req, stream, db, doc, source, tot, idx, summary>>

\* generateContent for a chunk settles (the awaits inside the adapter are
\* taken as one): the adapter throws when its key is absent, the provider
\* request fails, or a text is returned and pushed
Gen(r) ==
  /\ pc[r] = "gen"
  /\ \/ /\ ~Configured(env, req[r].aiModel)
        /\ OnChunkFailure(r, NotConfiguredError(req[r].aiModel))
        /\ Log(r, CallEntry("genThrow", idx[r] + 1))
        /\ UNCHANGED idx
     \/ /\ Configured(env, req[r].aiModel)
        /\ OnChunkFailure(r, Err("providerRequestFailed", {}))
        /\ Log(r, CallEntry("genThrow", idx[r] + 1))
        /\ UNCHANGED idx
     \/ /\ Configured(env, req[r].aiModel)
        /\ Log(r, CallEntry("genEnd", idx[r] + 1))
        /\ idx' = Set(idx, r, idx[r] + 1)
        /\ AfterChunk(r, idx[r], tot[r])
  /\ UNCHANGED <<shared, req, stream, db, doc, source, tot, summary>>

\* the 'finalizing' event is written; generateContent is called on the
\* combined summaries
WFinalizing(r) ==
  /\ pc[r] = "wFinalizing"
  /\ WrittenThen(r, CallEntry("finalStart", 0))
  /\ CallAt(r, "genFinal")
  /\ UNCHANGED <<shared, req, stream, db, doc, source, tot, idx, summary>>

\* (mutant) the summary is saved without the emptiness check
AfterFinalUnchecked(r, t) ==
  /\ WriteCall(r, SavingProgress(tot[r]), "wSaving")
  /\ t = t

\* `if (!summary) throw new Error('No summary content generated')`, then the 'saving'
\* progress event
AfterFinal(r, t) ==
  IF t = ""
  THEN Raise(r, Err("noSummaryContent", {}))
  ELSE WriteCall(r, SavingProgress(tot[r]), "wSaving")

\* the final generateContent settles; an empty summary throws, a non-empty
\* one writes the 'saving' event
GenFinal(r) ==
  /\ pc[r] = "genFinal"
  /\ \/ /\ ~Configured(env, req[r].aiModel)
        /\ Raise(r, NotConfiguredError(req[r].aiModel))
        /\ Log(r, CallEntry("finalThrow", 0))
        /\ UNCHANGED summary
     \/ /\ Configured(env, req[r].aiModel)
        /\ Raise(r, Err("providerRequestFailed", {}))
        /\ Log(r, CallEntry("finalThrow", 0))
        /\ UNCHANGED summary
     \/ /\ Configured(env, req[r].aiModel)
        /\ Log(r, CallEntry("finalEnd", 0))
        /\ \E t \in Texts \cup {""} :
             /\ summary' = Set(summary, r, t)
             /\ AfterFinal(r, t)
  /\ UNCHANGED <<shared, req, stream, db, doc, source, tot, idx>>

\* ------------------------------------------------------------------------
\* Actions: saving stage and terminal events
\* ------------------------------------------------------------------------
\* the 'saving' event is written; the inner try is entered and findOne is
\* called
WSaving(r) ==
  /\ pc[r] = "wSaving"
  /\ WrittenThen(r, CallEntry("find", 2))
  /\ CallAt(r, "find2")
  /\ UNCHANGED <<shared, req, stream, db, doc, source, tot, idx, summary>>

\* the lookup of the upsert settles: findOneAndUpdate is called when a
\* document exists, insertOne otherwise
Find2(r) ==
  /\ pc[r] = "find2"
  /\ \/ LET d == FindOne(store, req[r].key)
        IN /\ doc' = Set(doc, r, d)
           /\ IF d # NoDoc
              THEN CallAt(r, "update") /\ Log(r, CallEntry("update", 0))
              ELSE CallAt(r, "insert") /\ Log(r, CallEntry("insert", 0))
     \/ /\ Raise(r, Err("dbFind", {}))
        /\ Log(r, CallEntry("dbThrow", 0))
        /\ UNCHANGED doc
  /\ UNCHANGED <<shared, req, stream, db, source, tot, idx, summary>>

\* findOneAndUpdate settles.  Driver 6 resolves to the updated document
\* itself, so `savedSummary.value` is undefined and `savedSummary._id`
\* throws a TypeError inside the inner try after the update was applied.
Update(r) ==
  /\ pc[r] = "update"
  /\ \/ /\ store' = FindOneAndUpdate(store, req[r].key, summary[r],
                                     req[r].mode, OrYoutube(source[r]))
        /\ Raise(r, Err("typeError", {}))
        /\ Log(r, CallEntry("updated", 0))
     \/ /\ Raise(r, Err("dbUpdate", {}))
        /\ Log(r, CallEntry("dbThrow", 0))
        /\ UNCHANGED store
  /\ UNCHANGED <<pure, disk, env, video, cachedClient, nClients, req, stream, db, doc, source, tot, idx, summary>>

\* insertOne settles; on success the 'complete' event is written from the
\* inserted document
Insert(r) ==
  /\ pc[r] = "insert"
  /\ \/ /\ store' = InsertOne(store, req[r].key, summary[r], req[r].mode,
                              OrYoutube(source[r]))
        /\ WriteCall(r, SavedComplete(summary[r], source[r]), "wComplete")
        /\ Log(r, CallEntry("inserted", 0))
     \/ /\ Raise(r, Err("dbInsert", {}))
        /\ Log(r, CallEntry("dbThrow", 0))
        /\ UNCHANGED store
  /\ UNCHANGED <<pure, disk, env, video, cachedClient, nClients, req, stream, db, doc, source, tot, idx, summary>>

\* a terminal event ('complete', warned 'complete' or 'error') is written;
\* the finally block follows
WTerminal(r) ==
  /\ pc[r] \in {"wComplete", "wWarn", "wError"}
  /\ Written(r)
  /\ Finally(r)
  /\ UNCHANGED <<shared, req, stream, db, doc, source, tot, idx, summary>>

\* writer.close() of the finally block settles: it closes a writable stream;
\* on a closed or errored one (or when the consumer has gone) it rejects, and
\* the rejection is logged and swallowed
FinClose(r) ==
  /\ pc[r] = "finClose"
  /\ \/ /\ stream[r] = "open"
        /\ stream' = Set(stream, r, "closed")
     \/ /\ stream[r] = "open"
        /\ stream' = Set(stream, r, "errored")
     \/ /\ stream[r] # "open"
        /\ UNCHANGED stream
  /\ pc' = Set(pc, r, "done")
  /\ UNCHANGED <<shared, req, out, trace, closes, err, unhandled, db, doc, source, tot, idx, summary>>

\* ------------------------------------------------------------------------
\* Specification
\* ------------------------------------------------------------------------
\* one step of run r
Step(r) ==
  \/ Begin(r) \/ Json(r) \/ DbCached(r) \/ DbConnect(r) \/ Find1(r)
  \/ WHit(r) \/ CloseHit(r) \/ WAnalyzing(r) \/ Caption(r) \/ YtInfo(r)
  \/ DlInfo(r) \/ DlStream(r) \/ StatTemp(r) \/ Ffmpeg(r) \/ StatOut(r)
  \/ UnlinkTemp(r) \/ WStat(r) \/ WRead(r) \/ WCreate(r) \/ WUnlink(r)
  \/ WProcessing(r) \/ Gen(r) \/ WFinalizing(r)
  \/ GenFinal(r) \/ WSaving(r) \/ Find2(r) \/ Update(r) \/ Insert(r)
  \/ WTerminal(r) \/ WriteFailed(r) \/ FinClose(r)

Next == \E r \in Runs : Step(r)

Spec == Init /\ [][Next]_vars

\* the same program under the scheduling the event loop guarantees: every
\* pending await of every run eventually settles (each external call
\* returns or throws)
FairSpec == LiveInit /\ [][Next]_vars /\ \A r \in Runs : WF_vars(Step(r))

\* the call of splitTranscriptIntoChunks returns
SplitCall ==
  /\ ~splitRet.returned
  /\ splitArgs # NoArgs
  /\ splitRet' = [returned |-> TRUE,
                  chunks |-> splitTranscriptIntoChunks(splitArgs.transcript,
                                splitArgs.chunkSize, splitArgs.overlap)]
  /\ UNCHANGED <<env, video, store, cachedClient, nClients, req, pc, stream, out,
                 trace, closes, err, unhandled, db, doc, source, tot, idx,
                 summary, splitArgs, cleanArg, cleanRet, disk>>

SplitNext == SplitCall

\* the chunk splitter applied to every explored input
SplitSpec == SplitInit /\ [][SplitNext]_vars

\* the call of cleanModelOutput returns
CleanCall ==
  /\ ~cleanRet.returned
  /\ cleanRet' = [returned |-> TRUE, text |-> cleanModelOutput(cleanArg)]
  /\ UNCHANGED <<env, video, store, cachedClient, nClients, req, pc, stream, out,
                 trace, closes, err, unhandled, db, doc, source, tot, idx,
                 summary, splitArgs, splitRet, cleanArg, disk>>

CleanNext == CleanCall

\* the sanitizer applied to every explored model output
CleanSpec == CleanInit /\ [][CleanNext]_vars

\* ------------------------------------------------------------------------
\* Reading a run's trace
\* ------------------------------------------------------------------------
IsEvent(e) == e.op = "write"
IsTerminal(e) == e.op = "write" /\ e.type \in {"complete", "error"}
IsProgress(e) == e.op = "write" /\ e.type = "progress"

\* the events written to the stream of run r, in order
Events(r) == SelectSeq(trace[r], IsEvent)

\* the progress events written to the stream of run r, in order
Progress(r) == SelectSeq(trace[r], IsProgress)

Last(s) == s[Len(s)]

\* positions of the trace of r that hold an entry with operation op
At(r, op) == {j \in 1..Len(trace[r]) : trace[r][j].op = op}

\* the run made the call op (for chunk or stage n)
Called(r, op, n) == \E j \in At(r, op) : trace[r][j].cur = n

\* the stream of r delivered everything and was closed (the consumer stayed)
Delivered(r) == pc[r] = "done" /\ stream[r] = "closed"

\* ------------------------------------------------------------------------
\* C1: at most one terminal event per run, and nothing is written after it
\* ------------------------------------------------------------------------
\* C1: in every state, an entry of a run's trace that is a terminal event
\* ('complete' or 'error') is followed by no written event of any type.
C1_OneTerminalLast ==
  \A r \in Runs : \A j \in 1..Len(trace[r]) :
    IsTerminal(trace[r][j]) =>
      \A k \in (j + 1)..Len(trace[r]) : ~IsEvent(trace[r][k])

\* witness: one run finished on the success path and the other on the
\* cache-hit path, each with its terminal event written
C1_Witness ==
  \E r, q \in Runs :
    /\ Delivered(r) /\ At(r, "inserted") # {}
    /\ Last(trace[r]).type = "complete"
    /\ Delivered(q) /\ At(q, "acquire") = {}
    /\ Len(trace[q]) > 0 /\ Last(trace[q]).type = "complete"

\* ------------------------------------------------------------------------
\* C2: every run ends with a terminal event and a closed stream
\* ------------------------------------------------------------------------
\* the run is over and its consumer, unless it went away, has received a
\* terminal event as the last event of a stream that was then closed
C2_Ended(r) ==
  /\ pc[r] = "done"
  /\ \/ stream[r] = "errored"
     \/ /\ stream[r] = "closed"
        /\ Events(r) # << >>
        /\ IsTerminal(Last(Events(r)))

\* C2: under FairSpec, every run that has started eventually ends, whatever
\* stage failed, with a terminal event written and the stream closed after it
\* (a stream whose consumer went away cannot be written and ends errored).
C2_AlwaysTerminates == \A r \in Runs : (pc[r] = "json") ~> C2_Ended(r)

\* witness: a run whose acquisition failed has ended with an 'error' event
\* on a closed stream
C2_Witness ==
  \E r \in Runs :
    /\ Delivered(r)
    /\ err[r].msg \in {"videoInfo", "downloadAudio", "whisper"}
    /\ Last(Events(r)).type = "error"

\* ------------------------------------------------------------------------
\* C3: the writer is closed exactly once on every exit path
\* ------------------------------------------------------------------------
\* C3: a run that has ended invoked writer.close() exactly once.
C3_ClosedExactlyOnce == \A r \in Runs : pc[r] = "done" => closes[r] = 1

\* ------------------------------------------------------------------------
\* C4: a cache hit bypasses the whole pipeline
\* ------------------------------------------------------------------------
\* the cache lookup of run r found a stored summary
CacheHit(r) == doc[r] # NoDoc /\ ~Called(r, "find", 2)

\* C4: a run whose cache lookup found a stored summary makes no call on the
\* transcript acquirer, the provider or the store besides that lookup, writes
\* no event other than one 'complete' carrying the content and the source of
\* the document found, and has written exactly that one event when its stream
\* is closed.
C4_CacheHitBypass ==
  \A r \in Runs : CacheHit(r) =>
    /\ \A j \in 1..Len(trace[r]) :
         \/ trace[r][j] = CallEntry("find", 1)
         \/ trace[r][j] = CompleteEvent(doc[r].content, doc[r].source, FALSE)
    /\ Len(Events(r)) <= 1
    /\ Delivered(r) => Len(Events(r)) = 1

\* witness: a run ended on a cache hit whose document came from the audio
\* fallback, after the other run stored it
C4_Witness ==
  \E r \in Runs :
    /\ CacheHit(r) /\ Delivered(r)
    /\ doc[r].source = "whisper"
    /\ doc[r] \in {store[j] : j \in 1..Len(store)}

\* ------------------------------------------------------------------------
\* C5: a failed chunk generation aborts the run
\* ------------------------------------------------------------------------
\* C5: once generateContent has failed for a chunk, the only entry the trace
\* can get is the 'error' event (no further provider call, no final call, no
\* store call), no store call of the upsert was made before it either, and a
\* run that ends with its stream closed ends with that 'error' event.
C5_ChunkFailureAborts ==
  \A r \in Runs : \A j \in At(r, "genThrow") :
    /\ \A k \in (j + 1)..Len(trace[r]) :
         IsEvent(trace[r][k]) /\ trace[r][k].type = "error"
    /\ Len(trace[r]) <= j + 1
    /\ \A k \in 1..j : trace[r][k].op \notin {"update", "insert", "finalStart"}
    /\ ~Called(r, "find", 2)
    /\ Delivered(r) => Len(trace[r]) = j + 1

\* witness: a run over two chunks or more whose second chunk failed has ended
\* with the 'error' event
C5_Witness ==
  \E r \in Runs :
    /\ Delivered(r)
    /\ Called(r, "genThrow", 2)
    /\ Last(trace[r]).type = "error"

\* ------------------------------------------------------------------------
\* C6: a failed save degrades to a warned 'complete'
\* ------------------------------------------------------------------------
\* C6: once a store call of the upsert (find, update or insert) has thrown,
\* after a final generation that returned a non-empty text, the run writes no
\* 'error' event; the only event it can still write is a 'complete' with the
\* warning set whose summary is the generated text; and a run that ends with
\* its stream closed ends with exactly that event.
C6_SaveFailureWarns ==
  \A r \in Runs : \A j \in At(r, "dbThrow") :
    /\ summary[r] \in Texts
    /\ \A k \in 1..Len(trace[r]) : ~(IsEvent(trace[r][k]) /\ trace[r][k].type = "error")
    /\ \A k \in (j + 1)..Len(trace[r]) :
         /\ IsEvent(trace[r][k]) /\ trace[r][k].type = "complete"
         /\ trace[r][k].warning
         /\ trace[r][k].text = summary[r]
    /\ Delivered(r) => Len(trace[r]) = j + 1

\* witness: a run whose insert threw has ended with the warned 'complete'
C6_Witness ==
  \E r \in Runs :
    /\ Delivered(r)
    /\ At(r, "insert") # {} /\ At(r, "dbThrow") # {}
    /\ Last(trace[r]).type = "complete" /\ Last(trace[r]).warning
    /\ Last(trace[r]).text = summary[r]

\* ------------------------------------------------------------------------
\* C7: an unconfigured provider is reported before any acquisition
\* ------------------------------------------------------------------------
\* the request of r names a known backend whose credential is absent
Unconfigured(r) ==
  /\ req[r] # NoRequest
  /\ req[r].aiModel \in AI_MODELS
  /\ ~Configured(env, req[r].aiModel)

\* C7: a run whose request names a backend without credential never calls
\* the transcript acquirer, and every 'error' event it writes about a missing
\* credential names that backend and suggests another model.
C7_UnconfiguredBeforeAcquire ==
  \A r \in Runs : Unconfigured(r) =>
    /\ At(r, "acquire") = {}
    /\ \A j \in 1..Len(Events(r)) :
         Events(r)[j].msg = "notConfiguredChooseDifferentModel" =>
           /\ Events(r)[j].type = "error"
           /\ Events(r)[j].who = {MODEL_NAMES[req[r].aiModel]}

\* ------------------------------------------------------------------------
\* C8: progress events of a successful cache-miss run
\* ------------------------------------------------------------------------
\* <<1, 2, ..., n>>
RECURSIVE UpTo(_)
UpTo(n) == IF n = 0 THEN << >> ELSE Append(UpTo(n - 1), n)

\* the run missed the cache and ended with a 'complete' event
SucceededOnMiss(r) ==
  /\ pc[r] = "done"
  /\ At(r, "acquire") # {}
  /\ Last(trace[r]).op = "write"
  /\ Last(trace[r]).type = "complete"

\* C8: in every run the currentChunk of the progress events never decreases;
\* and a cache-miss run over N chunks that succeeded wrote progress events
\* with currentChunk 0, 1, ..., N, N, N, with totalChunks = N in every one
\* after the first, followed by exactly one terminal event and nothing else.
C8_ProgressSequence ==
  \A r \in Runs :
    LET P == Progress(r)
        E == Events(r)
        N == tot[r]
    IN /\ \A j \in 1..(Len(P) - 1) : P[j].cur <= P[j + 1].cur
       /\ SucceededOnMiss(r) =>
            /\ [j \in 1..Len(P) |-> P[j].cur] = <<0>> \o UpTo(N) \o <<N, N>>
            /\ \A j \in 2..Len(P) : P[j].tot = N
            /\ \A j \in 2..(N + 1) : P[j].stage = "processing"
            /\ Len(E) = Len(P) + 1
            /\ \A j \in 1..Len(P) : E[j] = P[j]

\* witness: a run over at least two chunks has succeeded
C8_Witness ==
  \E r \in Runs : SucceededOnMiss(r) /\ tot[r] >= 2 /\ ~Last(Events(r)).warning

\* ------------------------------------------------------------------------
\* C9: progress tick before the work; provider calls strictly sequential
\* ------------------------------------------------------------------------
\* C9: in every run, the entry right before the provider call for chunk i is
\* the written 'processing' event of chunk i; the call for chunk i (i > 1)
\* starts after the call for chunk i-1 returned, and no chunk is called
\* twice; the final combining call starts after the calls of all chunks
\* 1..N returned.
C9_SequentialCalls ==
  \A r \in Runs : \A j \in 1..Len(trace[r]) :
    LET e == trace[r][j]
    IN /\ e.op = "genStart" =>
            /\ j > 1
            /\ trace[r][j - 1] = ProgressEvent(e.cur, tot[r], "processing")
            /\ e.cur > 1 => \E k \in 1..(j - 1) : trace[r][k] = CallEntry("genEnd", e.cur - 1)
            /\ \A k \in 1..(j - 1) : trace[r][k] # e
       /\ e.op = "finalStart" =>
            \A i \in 1..tot[r] : \E k \in 1..(j - 1) : trace[r][k] = CallEntry("genEnd", i)

\* witness: a run over at least two chunks has started its final call
C9_Witness ==
  \E r \in Runs : tot[r] >= 2 /\ At(r, "finalStart") # {} /\ Called(r, "genStart", 2)

\* ------------------------------------------------------------------------
\* C10: at most one stored summary per key
\* ------------------------------------------------------------------------
\* C10: in every state the store holds at most one document per
\* (videoId, language) key.
C10_OneSummaryPerKey == \A k \in Keys : Cardinality(Matching(store, k)) <= 1

\* ------------------------------------------------------------------------
\* C11: concurrent runs for one key: the last writer wins
\* ------------------------------------------------------------------------
\* the save of run r (its insertOne or findOneAndUpdate) has been applied
Saved(r) == At(r, "inserted") # {} \/ At(r, "updated") # {}

\* this step applies the save of run r
Saves(r) ==
  /\ trace'[r] # trace[r]
  /\ Last(trace'[r]).op \in {"inserted", "updated"}

\* C11: whenever the save of a run is applied after another run has saved
\* for the same key, a cache lookup made right after it returns the content
\* that run wrote (the last writer wins).
C11_LastWriterWins ==
  [][\A r \in Runs :
       (Saves(r) /\ \E q \in Runs \ {r} : Saved(q) /\ req[q].key = req[r].key)
         => FindOne(store', req[r].key).content = summary[r]]_vars

\* ------------------------------------------------------------------------
\* C12: chunk size bound
\* ------------------------------------------------------------------------
\* C12: every chunk returned by splitTranscriptIntoChunks, the first and the
\* later (seeded) ones alike, has at most chunkSize characters, unless it
\* consists of a single word that is longer than chunkSize.
C12_ChunkSizeBound ==
  splitRet.returned =>
    \A i \in 1..Len(splitRet.chunks) :
      LET c == splitRet.chunks[i]
      IN \/ Len(c) <= splitArgs.chunkSize
         \/ Len(split(c)) = 1

\* ------------------------------------------------------------------------
\* C13: chunk coverage
\* ------------------------------------------------------------------------
\* the words of chunk i of cs without the words it was seeded with: chunk
\* i > 1 starts with the overlap words taken from chunk i-1
Unseeded(cs, i, overlap) ==
  LET w == split(cs[i])
  IN IF i = 1
     THEN w
     ELSE SubSeq(w, Len(overlapWords(split(cs[i - 1]), overlap)) + 1, Len(w))

\* the unseeded words of chunks 1..n of cs, in order
RECURSIVE UnseededUpTo(_, _, _)
UnseededUpTo(cs, n, overlap) ==
  IF n = 0
  THEN << >>
  ELSE UnseededUpTo(cs, n - 1, overlap) \o Unseeded(cs, n, overlap)

\* C13: the words of the returned chunks, without the overlap words each
\* chunk after the first was seeded with, are in order exactly the words of
\* the input text.
C13_ChunkCoverage ==
  splitRet.returned =>
    UnseededUpTo(splitRet.chunks, Len(splitRet.chunks), splitArgs.overlap)
      = split(splitArgs.transcript)

\* witness: a call returned three chunks or more, the later ones seeded with
\* two words, from a text with an empty word and both letters
C13_Witness ==
  /\ splitRet.returned
  /\ Len(splitRet.chunks) >= 3
  /\ splitArgs.overlap = 20
  /\ \E j \in 1..Len(split(splitArgs.transcript)) :
       split(splitArgs.transcript)[j] = << >>
  /\ {"a", "b"} \subseteq {splitArgs.transcript[j] : j \in 1..Len(splitArgs.transcript)}

\* ------------------------------------------------------------------------
\* C14: empty input and empty chunks
\* ------------------------------------------------------------------------
\* C14: splitTranscriptIntoChunks returns no chunk for the empty text, and
\* for a non-empty text none of the chunks it returns is empty.
C14_NoEmptyChunk ==
  splitRet.returned =>
    IF splitArgs.transcript = << >>
    THEN splitRet.chunks = << >>
    ELSE \A i \in 1..Len(splitRet.chunks) : splitRet.chunks[i] # << >>

\* ------------------------------------------------------------------------
\* C15: one acquisition per run, caption first, failure is terminal
\* ------------------------------------------------------------------------
\* messages of the errors thrown inside getTranscript
AcquisitionErrors ==
  {"videoInfo", "noTranscriptAndNoWhisperKey", "fsExistsNotAFunction", "whisper"}

\* the acquisition of run r failed
AcquisitionFailed(r) == err[r].msg \in AcquisitionErrors

\* C15: in every run getTranscript is called at most once; the audio
\* fallback is entered at most once and only right after the caption fetch
\* of that call has failed; and a run whose acquisition failed has split
\* nothing, has called neither the provider nor the store after the cache
\* lookup, writes no event but 'error' after the failure, and ends with that
\* 'error' event as its last event.
C15_AcquireOnce ==
  \A r \in Runs :
    /\ Cardinality(At(r, "acquire")) <= 1
    /\ Cardinality(At(r, "audioFallback")) <= 1
    /\ \A j \in At(r, "audioFallback") :
         /\ j > 2
         /\ trace[r][j - 1] = CallEntry("captionThrow", 0)
         /\ trace[r][j - 2] = CallEntry("acquire", 0)
    /\ AcquisitionFailed(r) =>
         /\ tot[r] = 0
         /\ \A j \in 1..Len(trace[r]) :
              /\ trace[r][j].op \in {"find", "acquire", "captionThrow", "audioFallback", "write"}
              /\ trace[r][j].op = "find" => trace[r][j].cur = 1
              /\ trace[r][j].op = "write" =>
                   \/ trace[r][j] = AnalyzingProgress
                   \/ trace[r][j] = ErrorEvent(err[r]) /\ j = Len(trace[r])
         /\ Delivered(r) => Last(trace[r]) = ErrorEvent(err[r])

\* witness: a run whose audio fallback failed at the speech-to-text step has
\* ended with the 'error' event delivered
C15_Witness ==
  \E r \in Runs :
    /\ Delivered(r)
    /\ At(r, "audioFallback") # {}
    /\ err[r].msg = "whisper"

\* ------------------------------------------------------------------------
\* C16: the audio fallback leaves no file behind
\* ------------------------------------------------------------------------
\* C16: in every state in which no run is inside the audio fallback, neither
\* a temporary download file nor a transcoded audio file is on disk.
C16_NoFileLeft ==
  (\A r \in Runs : pc[r] \notin FallbackSites) =>
    \A f \in Paths : disk[f] = "absent"

\* ------------------------------------------------------------------------
\* C17: an empty final result is an error
\* ------------------------------------------------------------------------
\* the final generation of run r returned, and returned the empty text
EmptyFinal(r) == At(r, "finalEnd") # {} /\ summary[r] = ""

\* C17: a run whose final generateContent returned an empty text writes no
\* 'saving' progress event and makes no call on the store for the save; the
\* only event it writes after the final call is 'error', and that is its last
\* event when the run has ended.
C17_EmptyFinalIsError ==
  \A r \in Runs : EmptyFinal(r) =>
    /\ err[r].msg = "noSummaryContent"
    /\ \A j \in 1..Len(trace[r]) :
         /\ trace[r][j] # SavingProgress(tot[r])
         /\ trace[r][j].op \notin {"insert", "update", "inserted", "updated", "dbThrow"}
         /\ trace[r][j].op = "find" => trace[r][j].cur = 1
         /\ \A k \in 1..(j - 1) :
              trace[r][k].op = "finalEnd" => trace[r][j] = ErrorEvent(err[r])
    /\ Delivered(r) => Last(trace[r]) = ErrorEvent(err[r])

\* witness: a run over two chunks whose final generation came back empty has
\* ended with its 'error' event delivered
C17_Witness ==
  \E r \in Runs : EmptyFinal(r) /\ Delivered(r) /\ tot[r] >= 2

\* ------------------------------------------------------------------------
\* C18: an invalid provider choice is rejected before any work
\* ------------------------------------------------------------------------
\* C18: a run whose request names no backend of AI_MODELS makes no call on
\* the store, the transcript acquirer or the provider and writes no event
\* other than 'error': every entry of its trace is the 'error' event, and
\* that event is its last one when the run has ended.
C18_InvalidModelNoWork ==
  \A r \in Runs :
    (req[r] # NoRequest /\ req[r].aiModel \notin AI_MODELS) =>
      /\ db[r] = 0
      /\ \A j \in 1..Len(trace[r]) : trace[r][j] = ErrorEvent(err[r])
      /\ Delivered(r) => Len(trace[r]) = 1

\* ------------------------------------------------------------------------
\* C19: a later request for a stored key updates the record
\* ------------------------------------------------------------------------
\* run r found a record for its key (at the cache lookup or at the lookup of
\* the save) and has ended with a 'complete' event delivered
CompletedOnStoredKey(r) ==
  /\ Delivered(r)
  /\ Last(Events(r)).type = "complete"
  /\ doc[r] # NoDoc

\* C19: no record is ever removed from the store, and once a request for a
\* key that already had a record has completed, the record of that key
\* carries the mode of that request (the record was updated by it).
C19_LaterRequestUpdates ==
  /\ \A j \in 1..Len(store) : store[j].id = j
  /\ \A r \in Runs :
       CompletedOnStoredKey(r) => FindOne(store, req[r].key).mode = req[r].mode

\* ------------------------------------------------------------------------
\* C20: no work is scheduled after a failed write
\* ------------------------------------------------------------------------
\* awaits a run can still reach once its stream is unusable: the writes of
\* the catch handlers and the close of the finally block
AfterFailureSites == {"wWarn", "wError", "finClose", "done"}

\* C20: once the progress stream of a run is errored (a write or the close
\* was rejected because the consumer is gone), every further step of that
\* run adds no call and no event to its trace, changes neither the store nor
\* the files on disk, and only moves it to the write of a catch handler or to
\* the final close.
C20_NoWorkAfterFailedWrite ==
  [][\A r \in Runs :
       stream[r] = "errored" =>
         /\ trace'[r] = trace[r]
         /\ pc'[r] # pc[r] =>
              /\ pc'[r] \in AfterFailureSites
              /\ store' = store
              /\ disk' = disk]_vars

\* witness: a run whose 'processing' write for the second chunk failed,
\* after the first chunk was generated, has ended
C20_Witness ==
  \E r \in Runs :
    /\ pc[r] = "done"
    /\ err[r].msg = "streamWrite"
    /\ tot[r] >= 2 /\ idx[r] = 1
    /\ ~Called(r, "genStart", 2)

\* ------------------------------------------------------------------------
\* C21: a storage failure is never fatal
\* ------------------------------------------------------------------------
\* messages of the errors thrown by the store operations of a run: the
\* lookups (findOne) and the writes of the upsert
StorageErrors == {"dbFind", "dbUpdate", "dbInsert"}

\* C21: no run writes an 'error' event because a store operation failed,
\* whether the operation is the cache lookup or part of the upsert: no
\* 'error' event of any trace carries the message of a storage failure.
C21_StorageFailureNonFatal ==
  \A r \in Runs : \A j \in 1..Len(trace[r]) :
    trace[r][j].type = "error" => trace[r][j].msg \notin StorageErrors

\* ------------------------------------------------------------------------
\* C23: the database connection is a process-wide singleton
\* ------------------------------------------------------------------------
\* connectToDatabase has returned a connected client to run r
Connected(r) == db[r] # 0 /\ pc[r] \notin {"json", "dbConnect"}

\* C23: in every state, all the runs to which connectToDatabase has returned
\* hold the same connected client, and that client is the cached one: no
\* second client is ever connected and the cached handle is never replaced.
C23_SingletonConnection ==
  \A r \in Runs : Connected(r) =>
    /\ db[r] = cachedClient
    /\ \A q \in Runs : Connected(q) => db[q] = db[r]

\* ------------------------------------------------------------------------
\* C22
\* ------------------------------------------------------------------------

\* the lines of a text: text.split('\n')
RECURSIVE Lines(_)
Lines(s) ==
  LET nl == {j \in 1..Len(s) : s[j] \in NewLine}
  IN IF nl = {} THEN <<s>>
     ELSE <<SubSeq(s, 1, Min(nl) - 1)>> \o Lines(From(s, Min(nl) + 1))

\* heading marker, bullet markers and the two reserved emoji markers
Markers == {"#", "*", "-", "U+2022", "U+1F3AF", "U+1F399"}

\* the position of the first colon of a line, 0 when it has none
FirstColon(l) ==
  LET c == {j \in 1..Len(l) : l[j] = ":"}
  IN IF c = {} THEN 0 ELSE Min(c)

\* a line that starts with a marker and carries a label before a colon
StructuredLine(l) == Len(l) > 0 /\ l[1] \in Markers /\ FirstColon(l) > 2

\* the line up to and including its first colon
LabelPrefix(l) == SubSeq(l, 1, FirstColon(l))

\* every structured line of the input still opens a line of the output with
\* its marker and label
KeepsLabels(in, o) ==
  \A i \in 1..Len(Lines(in)) :
    StructuredLine(Lines(in)[i]) =>
      \E j \in 1..Len(Lines(o)) :
        /\ Len(Lines(o)[j]) >= FirstColon(Lines(in)[i])
        /\ SubSeq(Lines(o)[j], 1, FirstColon(Lines(in)[i]))
             = LabelPrefix(Lines(in)[i])

\* "The video discusses X."
ExampleAOut == <<"The", " ", "video", " ", "discusses", " ", "X", ".">>

\* C22: cleanModelOutput turns "Here's a summary: The video discusses X."
\* into "The video discusses X.", returns the marker line of
\* "<U+1F3AF> TITLE: My Video\nBody text" intact, and never removes the
\* leading "Label:" prefix of a line that starts with a heading marker, a
\* bullet marker or one of the two reserved emoji markers.
C22_StructuredLinesKept ==
  cleanRet.returned =>
    /\ cleanArg = ExampleA => cleanRet.text = ExampleAOut
    /\ cleanArg = ExampleB => Lines(cleanRet.text)[1] = Lines(ExampleB)[1]
    /\ KeepsLabels(cleanArg, cleanRet.text)

====
